---- MODULE Spec2Model ----
(***************************************************************************)
(* parse-notes: the directory-to-tree aggregation (traverseDir) and the    *)
(* rendering (Entry.Dump) of src/code.go, with main's sequence             *)
(* Stat; traverseDir; Dump; WriteFile.                                     *)
(*                                                                         *)
(* Text is modelled as it is in Go: a string is a sequence of bytes, here  *)
(* a sequence of one-character strings ordered by their byte value.        *)
(***************************************************************************)
EXTENDS FiniteSets, Integers, Sequences, TLC

VARIABLES
  fs,          \* the scanned tree: the path of a directory |-> its listing
  unreadable,  \* the paths of the directories ioutil.ReadDir fails on
  pc,          \* "setup" (the file system is being made), then the call main
               \* is about to make, then "exited" or "panicked"
  outInfo,     \* main's outInfo
  rootEntry,   \* main's rootEntry: [notes, subTopics]
  dumpText,    \* main's dumpText
  outContent,  \* the output file
  writeErr,    \* what ioutil.WriteFile returned
  exitCode     \* the exit status of the process

vars == <<fs, unreadable, pc, outInfo, rootEntry, dumpText, outContent,
          writeErr, exitCode>>

-----------------------------------------------------------------------------
(* Bounds and the finite universe of names.                                *)

\* The largest number of files and directories below the scanned root.
MaxNodes == 3

\* A nil os.FileInfo, and the description os.Stat gives of a file.
NilInfo == [isNil |-> TRUE, ino |-> 0]

FileInfo(ino) == [isNil |-> FALSE, ino |-> ino]

\* The output file: absent, or present with its bytes.
Absent == [exists |-> FALSE, bytes |-> <<>>]

Present(bytes) == [exists |-> TRUE, bytes |-> bytes]

NL == "\n"

\* Byte values of the characters that occur.
Byte ==
  (NL :> 10) @@ (" " :> 32) @@ ("#" :> 35) @@ ("(" :> 40) @@ (")" :> 41) @@
  ("-" :> 45) @@ ("." :> 46) @@ ("/" :> 47) @@ ("0" :> 48) @@ ("1" :> 49) @@
  ("2" :> 50) @@ ("3" :> 51) @@ ("4" :> 52) @@ ("5" :> 53) @@ ("6" :> 54) @@
  ("7" :> 55) @@ ("8" :> 56) @@ ("9" :> 57) @@ ("J" :> 74) @@ ("[" :> 91) @@
  ("]" :> 93) @@ ("a" :> 97) @@ ("b" :> 98) @@ ("c" :> 99) @@ ("h" :> 104) @@
  ("m" :> 109) @@ ("n" :> 110) @@ ("o" :> 111) @@ ("r" :> 114) @@ ("t" :> 116)

\* Names a directory of the scanned tree may carry: a plain one, one that
\* ends with the extension (and has the plain one as a prefix), a hidden one.
DirNames == { <<"a">>, <<"a", ".", "m">>, <<".", "h">> }

\* Names a file may carry: one that matches the extension, a hidden one that
\* matches it, one that does not match.
FileNames == { <<"a", ".", "m">>, <<".", "b", ".", "m">>, <<"c", ".", "t">> }

\* File identities (device + inode).  Two paths with one identity are hard
\* links to one file.  The file the output path names, when it names one, is
\* the first; which paths of the tree lead to it, if any, is the file
\* system's.
Inodes == {1, 2}

OutputIno == CHOOSE ino \in Inodes : \A other \in Inodes : ino <= other

\* main's inputs: args[0] and the -ext flag.
dirPath == <<"r">>

fileExt == <<".", "m">>

\* What the output file holds before the run.
OldContent == <<"o">>

-----------------------------------------------------------------------------
(* Strings.                                                                *)

HasPrefix(s, prefix) ==
  /\ Len(s) >= Len(prefix)
  /\ SubSeq(s, 1, Len(prefix)) = prefix

HasSuffix(s, suffix) ==
  /\ Len(s) >= Len(suffix)
  /\ SubSeq(s, Len(s) - Len(suffix) + 1, Len(s)) = suffix

\* Go's < on strings: bytewise lexicographic order.
StrLess(s, t) ==
  \E i \in 1..Len(t) :
     /\ i <= Len(s) + 1
     /\ SubSeq(s, 1, i - 1) = SubSeq(t, 1, i - 1)
     /\ \/ i = Len(s) + 1
        \/ Byte[s[i]] < Byte[t[i]]

Repeat(c, n) == [i \in 1..n |-> c]

-----------------------------------------------------------------------------
(* The file system the program reads.                                      *)

PathSeparator == <<"/">>

FullPath(basePath, name) == basePath \o PathSeparator \o name

\* The number of files and directories below the root.
RECURSIVE SumLen(_, _)
SumLen(f, ds) ==
  IF ds = {} THEN 0
  ELSE LET d == CHOOSE d \in ds : TRUE
       IN  Len(f[d]) + SumLen(f, ds \ {d})

Nodes == SumLen(fs, DOMAIN fs)

NamesIn(dir) == { fs[dir][i].name : i \in 1..Len(fs[dir]) }

\* mkdir dir/name.  A directory is listed in the order its names were made:
\* the order in which a listing delivers its names is the environment's (the
\* rendering sorts, and must not rely on it).
MkDir(dir, name) ==
  /\ pc = "setup"
  /\ Nodes < MaxNodes
  /\ name \notin NamesIn(dir)
  /\ fs' = [fs EXCEPT ![dir] = Append(@, [name |-> name, isDir |-> TRUE,
                                          ino |-> 0, mtime |-> 0])]
             @@ (FullPath(dir, name) :> <<>>)
  /\ UNCHANGED <<unreadable, pc, outInfo, rootEntry, dumpText, outContent,
                 writeErr, exitCode>>

\* A file dir/name with identity ino appears (created, or linked to an
\* existing file); its modification time is an attribute of the identity,
\* here day ino of January 2006.
CreateFile(dir, name, ino) ==
  /\ pc = "setup"
  /\ Nodes < MaxNodes
  /\ name \notin NamesIn(dir)
  /\ fs' = [fs EXCEPT ![dir] = Append(@, [name |-> name, isDir |-> FALSE,
                                          ino |-> ino, mtime |-> ino])]
  /\ UNCHANGED <<unreadable, pc, outInfo, rootEntry, dumpText, outContent,
                 writeErr, exitCode>>

\* A directory (the root included) becomes impossible to list.  The first
\* failed listing ends the run, so one such directory stands for any number.
MakeUnreadable(dir) ==
  /\ pc = "setup"
  /\ unreadable = {}
  /\ unreadable' = unreadable \cup {dir}
  /\ UNCHANGED <<fs, pc, outInfo, rootEntry, dumpText, outContent,
                 writeErr, exitCode>>

\* A failed listing taken for an empty directory ("skip and go on").
ReadDirSkip(basePath) ==
  IF basePath \in unreadable \/ basePath \notin DOMAIN fs
  THEN [err |-> FALSE, files |-> <<>>]
  ELSE [err |-> FALSE, files |-> fs[basePath]]

\* ioutil.ReadDir: the listing, or an error.  The library sorts the names it
\* returns; the listing is taken here in any order, the order the names
\* were made in, since the results are claimed for every order of delivery.
ReadDir(basePath) ==
  IF basePath \in unreadable \/ basePath \notin DOMAIN fs
  THEN [err |-> TRUE, files |-> <<>>]
  ELSE [err |-> FALSE, files |-> fs[basePath]]

-----------------------------------------------------------------------------
(* The tree: Note, Notes, Entry.                                           *)

blankEntry == [notes |-> <<>>, subTopics |-> <<>>]

\* Less with the comparison turned round.
LessDescending(notes, i, j) == StrLess(notes[j].name, notes[i].name)

\* Less that holds of any two different names: no order at all.
LessUnequal(notes, i, j) == notes[i].name # notes[j].name

Less(notes, i, j) == StrLess(notes[i].name, notes[j].name)

\* Swap as two assignments in sequence: the element at i is lost.
SwapNoTemp(notes, i, j) == [notes EXCEPT ![i] = notes[j]]

Swap(notes, i, j) == [notes EXCEPT ![i] = notes[j], ![j] = notes[i]]

-----------------------------------------------------------------------------
(* The tree builder.                                                       *)

\* Only the version-control directory is skipped.
IsHiddenGitOnly(name) == name = <<".", "g", "i", "t">>

IsHidden(name) == HasPrefix(name, <<".">>)

\* A comparison of the device alone: every file of the tree is the same file
\* as an output file that exists.
SameDevice(fi1, fi2) == ~fi1.isNil

\* os.SameFile(outInfo, file): false for a nil outInfo, else whether the two
\* describe one file.
SameFile(fi1, fi2) ==
  /\ ~fi1.isNil
  /\ fi1.ino = fi2.ino

\* The extension is not looked at.
IsNoteAnySuffix(file, ext, out) == ~SameFile(out, file)

IsNote(file, ext, out) ==
  /\ HasSuffix(file.name, ext)
  /\ ~SameFile(out, file)

RECURSIVE __traverseDir(_, _, _, _)
RECURSIVE traverseFiles(_, _, _, _, _, _)

\* The loop of __traverseDir from its i-th file on.  The result is the entry
\* as the loop leaves it, and whether a panic is unwinding.
traverseFiles(basePath, ext, entry, out, files, i) ==
  IF i > Len(files) THEN [panic |-> FALSE, entry |-> entry]
  ELSE
    LET file     == files[i]
        name     == file.name
        subTopic == name
        fullPath == FullPath(basePath, name)
    IN
      IF file.isDir THEN
        IF ~IsHidden(name) THEN
          LET e1  == IF subTopic \in DOMAIN entry.subTopics THEN entry
                     ELSE [entry EXCEPT
                             !.subTopics = @ @@ (subTopic :> blankEntry)]
              sub == __traverseDir(fullPath, ext, e1.subTopics[subTopic], out)
              e2  == [e1 EXCEPT !.subTopics[subTopic] = sub.entry]
          IN  IF sub.panic THEN [panic |-> TRUE, entry |-> e2]
              ELSE traverseFiles(basePath, ext, e2, out, files, i + 1)
        ELSE traverseFiles(basePath, ext, entry, out, files, i + 1)
      ELSE IF IsNote(file, ext, out) THEN
        LET note == [name |-> name, timestamp |-> file.mtime]
        IN  traverseFiles(basePath, ext,
                          [entry EXCEPT !.notes = Append(@, note)],
                          out, files, i + 1)
      ELSE traverseFiles(basePath, ext, entry, out, files, i + 1)

__traverseDir(basePath, ext, entry, out) ==
  LET listing == ReadDir(basePath)
  IN  IF listing.err THEN [panic |-> TRUE, entry |-> entry]
      ELSE traverseFiles(basePath, ext, entry, out, listing.files, 1)

traverseDir(basePath, ext, out) ==
  __traverseDir(basePath, ext, blankEntry, out)

-----------------------------------------------------------------------------
(* The renderer.                                                           *)

\* sort.Stable on fewer than 20 elements is an insertion sort through the
\* Less and Swap of Notes: element i sinks while it is Less than the one
\* before it.
RECURSIVE sink(_, _)
sink(notes, j) ==
  IF j > 1 /\ Less(notes, j, j - 1) THEN sink(Swap(notes, j, j - 1), j - 1)
  ELSE notes

RECURSIVE insertionSort(_, _)
insertionSort(notes, i) ==
  IF i > Len(notes) THEN notes
  ELSE insertionSort(sink(notes, i), i + 1)

Stable(notes) == insertionSort(notes, 2)

\* sort.Strings over the keys of the subTopics map.
KeyLess(a, b) == StrLess(a, b)

RECURSIVE SortStrings(_)
SortStrings(keys) ==
  IF keys = {} THEN <<>>
  ELSE LET least == CHOOSE k \in keys :
                       \A other \in keys \ {k} : KeyLess(k, other)
       IN  <<least>> \o SortStrings(keys \ {least})

Digit(n) == <<"0", "1", "2", "3", "4", "5", "6", "7", "8", "9">>[n + 1]

\* time.Format("02 Jan 2006") of a day of January 2006.
Format(day) ==
  <<Digit(day \div 10), Digit(day % 10)>> \o
  <<" ", "J", "a", "n", " ", "2", "0", "0", "6">>

\* The join without the test for an empty path.
JoinPathAlways(path, name) == path \o <<"/">> \o name

\* url of a note, subPath of a sub-topic.
JoinPath(path, name) ==
  IF path # <<>> THEN path \o <<"/">> \o name ELSE name

DisplayName(name, ext) == SubSeq(name, 1, Len(name) - Len(ext))

\* One marker character too many.
headingMarkerOffByOne(indent) == Repeat("#", indent + 1)

headingMarker(indent) == Repeat("#", indent)

noteLine(note, path, indent, ext) ==
  Repeat(" ", indent) \o <<"-", " ", "[">> \o DisplayName(note.name, ext) \o
  <<"]", "(">> \o JoinPath(path, note.name) \o <<")", " ", "[">> \o
  Format(note.timestamp) \o <<"]">> \o <<NL>>

headingLine(key, indent) ==
  <<NL>> \o Repeat(" ", indent) \o headingMarker(indent) \o <<" ">> \o key \o
  <<NL>>

RECURSIVE noteLines(_, _, _, _, _)
noteLines(notes, i, path, indent, ext) ==
  IF i > Len(notes) THEN <<>>
  ELSE noteLine(notes[i], path, indent, ext) \o
       noteLines(notes, i + 1, path, indent, ext)

RECURSIVE dump(_, _, _, _)
RECURSIVE dumpKeys(_, _, _, _, _, _)

\* The loop of dump over the sorted keys, from the i-th on.  The result is
\* the text and the sub-entries as the calls leave them.
dumpKeys(subTopics, keys, i, path, indent, ext) ==
  IF i > Len(keys) THEN [result |-> <<>>, subTopics |-> subTopics]
  ELSE
    LET key     == keys[i]
        subPath == JoinPath(path, key)
        sub     == dump(subTopics[key], subPath, indent + 1, ext)
        rest    == dumpKeys([subTopics EXCEPT ![key] = sub.entry], keys,
                            i + 1, path, indent, ext)
    IN  [result    |-> headingLine(key, indent) \o sub.result \o rest.result,
         subTopics |-> rest.subTopics]

\* Entry.dump.  notes := entry.notes copies the slice header, not the
\* array: sort.Stable(notes) reorders the array entry.notes refers to, so
\* the entry as the call leaves it is part of the result.
dump(entry, path, indent, ext) ==
  LET notes == Stable(entry.notes)
      keys  == SortStrings(DOMAIN entry.subTopics)
      subs  == dumpKeys(entry.subTopics, keys, 1, path, indent, ext)
  IN  [result |-> noteLines(notes, 1, path, indent, ext) \o subs.result,
       entry  |-> [notes |-> notes, subTopics |-> subs.subTopics]]

Title == <<"#", " ", "N", "o", "t", "e", "s", NL>>

StartIndent == 2

Dump(entry, ext) ==
  LET d == dump(entry, <<>>, StartIndent, ext)
  IN  [result |-> Title \o d.result, entry |-> d.entry]

-----------------------------------------------------------------------------
(* main.                                                                   *)

\* outInfo, err := os.Stat(*outputFile): the output path names nothing, or
\* a file (inside the scanned tree or not).
Stat ==
  /\ pc = "setup"
  /\ \E info \in {NilInfo, FileInfo(OutputIno)} :
        /\ outInfo' = info
        /\ outContent' = IF info.isNil THEN Absent ELSE Present(OldContent)
  /\ pc' = "traverseDir"
  /\ UNCHANGED <<fs, unreadable, rootEntry, dumpText, writeErr, exitCode>>

\* rootEntry := traverseDir(dirPath, *fileExt, outInfo); a panic is not
\* recovered and ends the process.
TraverseDir ==
  /\ pc = "traverseDir"
  /\ LET built == traverseDir(dirPath, fileExt, outInfo)
     IN  /\ rootEntry' = built.entry
         /\ pc' = IF built.panic THEN "panicked" ELSE "Dump"
         /\ exitCode' = IF built.panic THEN "2" ELSE exitCode
  /\ UNCHANGED <<fs, unreadable, outInfo, dumpText, outContent, writeErr>>

\* dumpText := rootEntry.Dump(*fileExt)
DumpTree ==
  /\ pc = "Dump"
  /\ LET d == Dump(rootEntry, fileExt)
     IN  /\ dumpText' = d.result
         /\ rootEntry' = d.entry
  /\ pc' = "WriteFile"
  /\ UNCHANGED <<fs, unreadable, outInfo, outContent, writeErr, exitCode>>

\* ioutil.WriteFile(*outputFile, []byte(dumpText), 0644) succeeds, or fails
\* to open the file (which is then as it was) or to write it once opened
\* and truncated; main drops what it returns and returns.
WriteFile ==
  /\ pc = "WriteFile"
  /\ \/ /\ writeErr' = "nil"
        /\ outContent' = Present(dumpText)
     \/ /\ writeErr' = "error"
        /\ outContent' \in {outContent, Present(<<>>)}
  /\ pc' = "exited"
  /\ exitCode' = "0"
  /\ UNCHANGED <<fs, unreadable, outInfo, rootEntry, dumpText>>

-----------------------------------------------------------------------------
Init ==
  /\ fs = (dirPath :> <<>>)
  /\ unreadable = {}
  /\ pc = "setup"
  /\ outInfo = NilInfo
  /\ rootEntry = blankEntry
  /\ dumpText = <<>>
  /\ outContent = Absent
  /\ writeErr = "not called"
  /\ exitCode = "running"

Next ==
  \/ \E dir \in DOMAIN fs, name \in DirNames : MkDir(dir, name)
  \/ \E dir \in DOMAIN fs, name \in FileNames, ino \in Inodes :
        CreateFile(dir, name, ino)
  \/ \E dir \in DOMAIN fs : MakeUnreadable(dir)
  \/ Stat
  \/ TraverseDir
  \/ DumpTree
  \/ WriteFile

Spec == Init /\ [][Next]_vars

-----------------------------------------------------------------------------
(* What the file system holds, read off fs without the program: a          *)
(* directory below the root is the sequence of names leading to it.        *)

RECURSIVE AbsPath(_)
AbsPath(rel) ==
  IF rel = <<>> THEN dirPath
  ELSE AbsPath(SubSeq(rel, 1, Len(rel) - 1)) \o <<"/">> \o rel[Len(rel)]

Listing(rel) == { fs[AbsPath(rel)][i] : i \in 1..Len(fs[AbsPath(rel)]) }

DotName(name) == name[1] = "."

RECURSIVE DirsBelow(_)
DirsBelow(rel) ==
  {rel} \cup UNION { DirsBelow(Append(rel, e.name)) :
                       e \in { x \in Listing(rel) : x.isDir } }

AllDirs == DirsBelow(<<>>)

UnderHidden(rel) == \E i \in 1..Len(rel) : DotName(rel[i])

\* The directories reached from the root through no hidden directory.
VisibleDirs == { rel \in AllDirs : ~UnderHidden(rel) }

FilesIn(rel) ==
  { [dir |-> rel, name |-> e.name, ino |-> e.ino] :
      e \in { x \in Listing(rel) : ~x.isDir } }

AllFiles == UNION { FilesIn(rel) : rel \in AllDirs }

Matching == { f \in AllFiles : HasSuffix(f.name, fileExt) }

Excluded == { f \in AllFiles : ~outInfo.isNil /\ f.ino = outInfo.ino }

ExpectedNotes ==
  (Matching \ { f \in AllFiles : UnderHidden(f.dir) }) \ Excluded

RECURSIVE Joined(_)
Joined(names) ==
  IF Len(names) = 1 THEN names[1]
  ELSE names[1] \o <<"/">> \o Joined(Tail(names))

Target(f) == Joined(Append(f.dir, f.name))

RECURSIVE EntryAt(_, _)
EntryAt(entry, rel) ==
  IF rel = <<>> THEN entry ELSE EntryAt(entry.subTopics[rel[1]], Tail(rel))

NoteNames(entry) == { entry.notes[i].name : i \in 1..Len(entry.notes) }

\* traverseDir has returned the tree and nothing has rendered it yet.
Built == pc = "Dump"

\* Dump has returned; dumpText and rootEntry are as it left them.
Rendered == pc = "WriteFile"

-----------------------------------------------------------------------------
(* Reading the rendered text back: its lines, and what each line says.     *)

RECURSIVE IndexFrom(_, _, _)
IndexFrom(s, pat, i) ==
  IF i + Len(pat) - 1 > Len(s) THEN 0
  ELSE IF SubSeq(s, i, i + Len(pat) - 1) = pat THEN i
  ELSE IndexFrom(s, pat, i + 1)

RECURSIVE Lines(_)
Lines(text) ==
  LET n == IndexFrom(text, <<NL>>, 1)
  IN  IF n = 0 THEN (IF text = <<>> THEN <<>> ELSE <<text>>)
      ELSE <<SubSeq(text, 1, n - 1)>> \o Lines(SubSeq(text, n + 1, Len(text)))

RECURSIVE Run(_, _, _)
Run(s, c, i) == IF i <= Len(s) /\ s[i] = c THEN 1 + Run(s, c, i + 1) ELSE 0

LastSlash(s) ==
  LET at == { i \in 1..Len(s) : s[i] = "/" }
  IN  IF at = {} THEN 0 ELSE CHOOSE i \in at : \A j \in at : j <= i

Item(kind, indent, marker, name, url, date) ==
  [kind |-> kind, indent |-> indent, marker |-> marker, name |-> name,
   url |-> url, date |-> date, topic |-> <<>>]

ParseLine(line) ==
  LET indent == Run(line, " ", 1)
      body   == SubSeq(line, indent + 1, Len(line))
  IN  IF line = <<>> THEN Item("blank", 0, 0, <<>>, <<>>, <<>>)
      ELSE IF body # <<>> /\ body[1] = "#" THEN
        LET marker == Run(body, "#", 1)
        IN  IF Len(body) > marker + 1 /\ body[marker + 1] = " "
            THEN Item("heading", indent, marker,
                      SubSeq(body, marker + 2, Len(body)), <<>>, <<>>)
            ELSE Item("other", indent, marker, <<>>, <<>>, <<>>)
      ELSE IF HasPrefix(body, <<"-", " ", "[">>) THEN
        LET p1 == IndexFrom(body, <<"]", "(">>, 4)
            p2 == IF p1 = 0 THEN 0
                  ELSE IndexFrom(body, <<")", " ", "[">>, p1 + 2)
        IN  IF p2 # 0 /\ body[Len(body)] = "]"
            THEN Item("note", indent, 0, SubSeq(body, 4, p1 - 1),
                      SubSeq(body, p1 + 2, p2 - 1),
                      SubSeq(body, p2 + 3, Len(body) - 1))
            ELSE Item("other", indent, 0, <<>>, <<>>, <<>>)
      ELSE Item("other", indent, 0, <<>>, <<>>, <<>>)

\* The parsed lines from the i-th on, each with the topic it stands under: a
\* heading of marker length d closes the topics of depth d and deeper and
\* opens its own.
RECURSIVE Place(_, _, _)
Place(lines, i, topic) ==
  IF i > Len(lines) THEN <<>>
  ELSE LET it   == ParseLine(lines[i])
           here == IF it.kind # "heading" THEN topic
                   ELSE IF it.marker >= 2 /\ it.marker - 2 <= Len(topic)
                        THEN Append(SubSeq(topic, 1, it.marker - 2), it.name)
                        ELSE <<<<"?">>>>
       IN  <<[it EXCEPT !.topic = here]>> \o Place(lines, i + 1, here)

\* The rendered text after its title line, parsed.
Document == Place(Lines(dumpText), 2, <<>>)

NoteItems(doc) == { i \in DOMAIN doc : doc[i].kind = "note" }

HeadingItems(doc) == { i \in DOMAIN doc : doc[i].kind = "heading" }

\* The file name a list line links to: its target after the last "/".
FileOf(item) == SubSeq(item.url, LastSlash(item.url) + 1, Len(item.url))

-----------------------------------------------------------------------------
(* The claims.                                                             *)

DirNamesIn(rel) == { e.name : e \in { x \in Listing(rel) : x.isDir } }

\* The names of the notes of rel in the order the listing delivered them.
IsListedNote(e) ==
  /\ ~e.isDir
  /\ HasSuffix(e.name, fileExt)
  /\ ~(~outInfo.isNil /\ e.ino = outInfo.ino)

Discovered(rel) ==
  LET found == SelectSeq(fs[AbsPath(rel)], IsListedNote)
  IN  [i \in 1..Len(found) |-> found[i].name]

NamesOf(notes) == [i \in 1..Len(notes) |-> notes[i].name]

NotesListed(doc, expected) ==
  /\ { doc[i].url : i \in NoteItems(doc) } = { Target(f) : f \in expected }
  /\ Cardinality(NoteItems(doc)) = Cardinality(expected)

\* C1: the notes that appear as list lines of the rendered text are exactly
\* the files under the root whose name ends with the extension, less those
\* under a hidden directory at any depth and less the excluded output file
\* (the code configures no ignore name); none twice, none missing.
C1_NotesListed ==
  Rendered => NotesListed(Document, ExpectedNotes)

C1_Witness ==
  /\ Rendered
  /\ ExpectedNotes # {}
  /\ \E f \in Matching : UnderHidden(f.dir)

ExclusionExact(dirs, excluded) ==
  \A rel \in dirs :
    LET entry == EntryAt(rootEntry, rel)
    IN  /\ NoteNames(entry) =
             { f.name : f \in (FilesIn(rel) \cap Matching) \ excluded }
        /\ Len(entry.notes) = Cardinality(NoteNames(entry))
        /\ DOMAIN entry.subTopics = { n \in DirNamesIn(rel) : ~DotName(n) }

\* C2: when the exclude target is a file F of the scanned tree, F is in no
\* Entry's notes and nothing else changes: every other matching file of
\* every directory (F's siblings, a file of F's name elsewhere with another
\* identity) is a note of its directory's Entry, and every sub-directory
\* that is not hidden has its Entry.
C2_ExclusionExact ==
  (Built /\ Excluded # {}) => ExclusionExact(VisibleDirs, Excluded)

C2_Witness ==
  /\ Built
  /\ \E f \in Excluded, g \in ExpectedNotes :
        /\ f.dir = <<>>
        /\ f \in Matching
        /\ g.name = f.name
        /\ g.dir # f.dir
        /\ g.name \in NoteNames(EntryAt(rootEntry, g.dir))
        /\ f.name \notin NoteNames(rootEntry)

\* What the output file held before the run.
InitialContent == IF outInfo.isNil THEN Absent ELSE Present(OldContent)

\* A directory the scan lists cannot be listed.
ListingFails == \E rel \in VisibleDirs : AbsPath(rel) \in unreadable

\* C3: if the listing of the root or of any directory the scan reaches
\* fails, the run ends in a panic, nothing is rendered and the output file
\* is as it was; the write happens only after the whole build and the
\* render.
C3_AbortOnListingFailure ==
  /\ (ListingFails /\ pc \notin {"setup", "traverseDir"}) =>
        /\ pc = "panicked"
        /\ exitCode = "2"
        /\ dumpText = <<>>
        /\ writeErr = "not called"
        /\ outContent = InitialContent
  /\ writeErr # "not called" =>
        /\ ~ListingFails
        /\ HasPrefix(dumpText, Title)

C3_Witness ==
  /\ pc = "panicked"
  /\ dirPath \notin unreadable
  /\ rootEntry.notes # <<>>
  /\ outContent = Present(OldContent)

\* C4: a failed write of the output file ends the run in an error outcome,
\* not as a successful run.
C4_WriteFailureSurfaced ==
  (pc = "exited" /\ writeErr = "error") => exitCode # "0"

NotesSorted(doc) ==
  \A i, j \in NoteItems(doc) :
    (i < j /\ doc[i].topic = doc[j].topic) =>
      StrLess(FileOf(doc[i]), FileOf(doc[j]))

\* C5: of two notes of one topic, the one with the lexicographically smaller
\* file name is rendered first, whatever the order of the listing.
C5_NotesSorted ==
  Rendered => NotesSorted(Document)

Descending(names) ==
  \E i, j \in DOMAIN names : i < j /\ StrLess(names[j], names[i])

C5_Witness ==
  /\ Rendered
  /\ \E rel \in VisibleDirs : Descending(Discovered(rel))

RECURSIVE Ascending(_)
Ascending(names) ==
  IF names = {} THEN <<>>
  ELSE LET least == CHOOSE n \in names :
                       \A other \in names \ {n} : StrLess(n, other)
       IN  <<least>> \o Ascending(names \ {least})

\* The headings of the sub-topics of rel and of all below them, in order:
\* siblings by ascending name, each followed by its own subtree.
RECURSIVE Skeleton(_, _)
RECURSIVE SkeletonOf(_, _, _)
SkeletonOf(rel, kids, depth) ==
  IF kids = <<>> THEN <<>>
  ELSE <<[name |-> kids[1], marker |-> depth]>> \o
       Skeleton(Append(rel, kids[1]), depth + 1) \o
       SkeletonOf(rel, Tail(kids), depth)

Skeleton(rel, depth) ==
  SkeletonOf(rel, Ascending({ n \in DirNamesIn(rel) : ~DotName(n) }), depth)

IsHeading(item) == item.kind = "heading"

Headings(doc) ==
  LET hs == SelectSeq(doc, IsHeading)
  IN  [i \in 1..Len(hs) |-> [name |-> hs[i].name, marker |-> hs[i].marker]]

\* C6: sibling sub-topics are rendered by ascending directory name, each
\* with its whole subtree before the next, and the heading of a sub-topic
\* has 2 marker characters directly under the root and one more per level.
C6_SubTopicsOrdered ==
  Rendered => Headings(Document) = Skeleton(<<>>, 2)

C6_Witness ==
  /\ Rendered
  /\ \E rel \in VisibleDirs : Len(rel) = 2
  /\ \E i, j \in DOMAIN fs[dirPath] :
        /\ i < j
        /\ fs[dirPath][i].isDir
        /\ fs[dirPath][j].isDir
        /\ ~DotName(fs[dirPath][i].name)
        /\ StrLess(fs[dirPath][j].name, fs[dirPath][i].name)

LinkTargets(doc, expected) ==
  /\ \A f \in expected :
       \E i \in NoteItems(doc) :
          /\ doc[i].url = Target(f)
          /\ doc[i].topic = f.dir
  /\ \A i \in NoteItems(doc) :
       LET url == doc[i].url
       IN  /\ url = Joined(Append(doc[i].topic, FileOf(doc[i])))
           /\ url[1] # "/"
           /\ url[Len(url)] # "/"
           /\ IndexFrom(url, <<"/", "/">>, 1) = 0
           /\ ~HasPrefix(url, dirPath \o <<"/">>)

\* C7: the link target of a note is the names of its topics from the root's
\* child down and its file name, joined by single "/": no "/" at either
\* end, no "//", no root path in front.
C7_LinkTargets ==
  Rendered => LinkTargets(Document, ExpectedNotes)

C7_Witness ==
  /\ Rendered
  /\ \E f \in ExpectedNotes : Len(f.dir) = 2

HeadingsMatchDirs(doc, dirs) ==
  /\ { doc[i].topic : i \in HeadingItems(doc) } = dirs \ {<<>>}
  /\ Cardinality(HeadingItems(doc)) = Cardinality(dirs) - 1
  /\ \A i \in NoteItems(doc) : doc[i].topic \in dirs
  /\ \A i \in DOMAIN doc :
       /\ doc[i].kind \in {"blank", "heading", "note"}
       /\ doc[i].kind = "blank" =>
            i < Len(doc) /\ doc[i + 1].kind = "heading"
       /\ doc[i].kind = "heading" =>
            i > 1 /\ doc[i - 1].kind = "blank"

\* C8: the heading lines are one to one with the directories reached from
\* the root through no hidden directory; a hidden directory has no heading
\* and is not listed; a directory with nothing to show has its heading and
\* no other line.
C8_HeadingsMatchDirs ==
  /\ Rendered => HeadingsMatchDirs(Document, VisibleDirs)
  /\ pc = "panicked" => ListingFails

C8_Witness ==
  /\ Rendered
  /\ \E rel \in AllDirs : UnderHidden(rel) /\ Listing(rel) # {}
  /\ \E rel \in VisibleDirs : rel # <<>> /\ Listing(rel) = {}

\* C9: rendering the tree again, as the first rendering left it, gives the
\* same text.
C9_RenderIdempotent ==
  Rendered => Dump(rootEntry, fileExt).result = dumpText

C9_Witness ==
  /\ Rendered
  /\ Len(rootEntry.notes) > 1
  /\ NamesOf(rootEntry.notes) # Discovered(<<>>)

Count(notes, note) == Cardinality({ i \in DOMAIN notes : notes[i] = note })

RECURSIVE SortedInPlace(_, _)
SortedInPlace(before, after) ==
  /\ Len(after.notes) = Len(before.notes)
  /\ \A i \in DOMAIN before.notes :
        Count(after.notes, before.notes[i]) = Count(before.notes, before.notes[i])
  /\ \A i, j \in DOMAIN after.notes :
        i < j => ~StrLess(after.notes[j].name, after.notes[i].name)
  /\ DOMAIN after.subTopics = DOMAIN before.subTopics
  /\ \A key \in DOMAIN before.subTopics :
        SortedInPlace(before.subTopics[key], after.subTopics[key])

====
